---- MODULE Spec2Model ----
(***************************************************************************)
(* A model of the gateway's error normalisation:                           *)
(*   app/handler/user_friendly_errors.py  (UserFriendlyErrorHandler)       *)
(*   app/service/client/api_client.py     (the two streaming clients)      *)
(*                                                                         *)
(* Python values are tagged records [t |-> type, v |-> payload]; a Python  *)
(* str is a sequence of one-character strings, so that str.lower, the in   *)
(* substring test, len, sorting and the regular expressions are computed   *)
(* character by character.  A raised exception is the pseudo-value         *)
(* Raise(name).  The fixed Chinese message texts of the two tables are     *)
(* written as one symbolic character each (TLA+ strings are ASCII).        *)
(***************************************************************************)
EXTENDS Integers, Sequences, FiniteSets, TLC

(***************************************************************************)
(* Characters and the str methods the code calls                           *)
(***************************************************************************)
Ascii ==
    << " ", "!", "\"", "#", "$", "%", "&", "'", "(", ")", "*", "+", ",", "-",
       ".", "/", "0", "1", "2", "3", "4", "5", "6", "7", "8", "9", ":", ";",
       "<", "=", ">", "?", "@", "A", "B", "C", "D", "E", "F", "G", "H", "I",
       "J", "K", "L", "M", "N", "O", "P", "Q", "R", "S", "T", "U", "V", "W",
       "X", "Y", "Z", "[", "\\", "]", "^", "_", "<grave>", "a", "b", "c", "d", "e",
       "f", "g", "h", "i", "j", "k", "l", "m", "n", "o", "p", "q", "r", "s",
       "t", "u", "v", "w", "x", "y", "z", "{", "|", "}", "~" >>

Whitespace == {" ", "\t", "\n"}

Chars == {Ascii[i] : i \in 1..Len(Ascii)} \cup Whitespace

\* the code point of a character: Python compares str values by code point
\* (code point 96 is written "<grave>": it occurs in no text of the model)
ord[c \in Chars] ==
    IF c = "\t" THEN 9
    ELSE IF c = "\n" THEN 10
    ELSE 31 + (CHOOSE i \in 1..Len(Ascii) : Ascii[i] = c)

IsUpper(c) == c \in Chars /\ ord[c] \in 65..90
IsLower(c) == c \in Chars /\ ord[c] \in 97..122
IsDigit(c) == c \in Chars /\ ord[c] \in 48..57
IsSpace(c) == c \in Whitespace
\* \w of the re module
IsWordChar(c) == IsUpper(c) \/ IsLower(c) \/ IsDigit(c) \/ c = "_"

lower_char(c) == IF IsUpper(c) THEN Ascii[ord[c] + 32 - 31] ELSE c
upper_char(c) == IF IsLower(c) THEN Ascii[ord[c] - 32 - 31] ELSE c

\* str.lower() and str.upper()
lower(s) == [i \in 1..Len(s) |-> lower_char(s[i])]
upper(s) == [i \in 1..Len(s) |-> upper_char(s[i])]

\* s[i:] starts with p   (i is 1-based)
StartsWithAt(s, i, p) ==
    /\ i + Len(p) - 1 <= Len(s)
    /\ \A j \in 1..Len(p) : s[i + j - 1] = p[j]

\* the substring test  (sub in s)
in(sub, s) == \E i \in 1..(Len(s) - Len(sub) + 1) : StartsWithAt(s, i, sub)

\* str.strip()
RECURSIVE lstrip(_)
lstrip(s) == IF s # <<>> /\ IsSpace(Head(s)) THEN lstrip(Tail(s)) ELSE s

RECURSIVE rstrip(_)
rstrip(s) ==
    IF s # <<>> /\ IsSpace(s[Len(s)]) THEN rstrip(SubSeq(s, 1, Len(s) - 1)) ELSE s

strip(s) == rstrip(lstrip(s))

\* str < str: lexicographic by code point, a proper prefix first
RECURSIVE StrLess(_, _)
StrLess(a, b) ==
    IF b = <<>> THEN FALSE
    ELSE IF a = <<>> THEN TRUE
    ELSE IF Head(a) # Head(b) THEN ord[Head(a)] < ord[Head(b)]
    ELSE StrLess(Tail(a), Tail(b))

\* int(digits)
RECURSIVE int(_)
int(ds) ==
    IF ds = <<>> THEN 0
    ELSE 10 * int(SubSeq(ds, 1, Len(ds) - 1)) + (ord[ds[Len(ds)]] - 48)

(***************************************************************************)
(* Python values                                                           *)
(***************************************************************************)
PyNone == [t |-> "None"]
PyStr(s) == [t |-> "str", v |-> s]
PyInt(n) == [t |-> "int", v |-> n]
PyList(xs) == [t |-> "list", v |-> xs]
\* a dict is the sequence of its <<key, value>> items in insertion order
PyDict(items) == [t |-> "dict", v |-> items]
Raise(e) == [t |-> "raise", v |-> e]

IsStr(x) == x.t = "str"
IsRaise(x) == x.t = "raise"

\* bool(x)
Truthy(x) ==
    CASE x.t = "None" -> FALSE
      [] x.t = "str" -> x.v # <<>>
      [] x.t = "int" -> x.v # 0
      [] x.t = "list" -> x.v # <<>>
      [] x.t = "dict" -> x.v # <<>>
      [] OTHER -> TRUE

\* hash(x) succeeds
Hashable(x) == x.t \notin {"list", "dict"}

\* items, a sequence of <<key, value>> pairs with str keys (as char sequences)
ItemsHas(items, k) == \E i \in 1..Len(items) : items[i][1] = k
ItemsGet(items, k, default) ==
    IF ItemsHas(items, k)
    THEN items[CHOOSE i \in 1..Len(items) : items[i][1] = k][2]
    ELSE default
ItemsKeys(items) == {items[i][1] : i \in 1..Len(items)}

\* d[k] = v on an insertion-ordered dict
ItemsSet(items, k, val) ==
    IF ItemsHas(items, k)
    THEN [i \in 1..Len(items) |->
            IF items[i][1] = k THEN <<k, val>> ELSE items[i]]
    ELSE Append(items, <<k, val>>)

\* an update that leaves the keys it finds as they are
ItemsUpdate_keep_existing(items, other) ==
    items \o SelectSeq(other, LAMBDA kv : ~ItemsHas(items, kv[1]))

\* dict.update(other)
RECURSIVE ItemsUpdate(_, _)
ItemsUpdate(items, other) ==
    IF other = <<>> THEN items
    ELSE ItemsUpdate(ItemsSet(items, other[1][1], other[1][2]), Tail(other))

(***************************************************************************)
(* UserFriendlyErrorHandler: the two fixed tables                          *)
(***************************************************************************)
\* the HTTP status table; a message text is one symbolic character.  404 and
\* NOT_FOUND carry the same text in the source, hence the same symbol.
DEFAULT_ERROR_MESSAGES ==
    << <<400, <<"<400>">> >>, <<401, <<"<401>">> >>, <<403, <<"<403>">> >>,
       <<404, <<"<not found>">> >>, <<408, <<"<408>">> >>,
       <<429, <<"<429>">> >>, <<500, <<"<500>">> >>, <<502, <<"<502>">> >>,
       <<503, <<"<503>">> >>, <<504, <<"<504>">> >> >>

KW_INTERNAL == <<"I", "N", "T", "E", "R", "N", "A", "L">>
KW_QUOTA_EXCEEDED ==
    <<"Q", "U", "O", "T", "A", "_", "E", "X", "C", "E", "E", "D", "E", "D">>
KW_PERMISSION_DENIED ==
    <<"P", "E", "R", "M", "I", "S", "S", "I", "O", "N", "_", "D", "E", "N", "I",
      "E", "D">>
KW_INVALID_ARGUMENT ==
    <<"I", "N", "V", "A", "L", "I", "D", "_", "A", "R", "G", "U", "M", "E", "N",
      "T">>
KW_DEADLINE_EXCEEDED ==
    <<"D", "E", "A", "D", "L", "I", "N", "E", "_", "E", "X", "C", "E", "E", "D",
      "E", "D">>
KW_RESOURCE_EXHAUSTED ==
    <<"R", "E", "S", "O", "U", "R", "C", "E", "_", "E", "X", "H", "A", "U", "S",
      "T", "E", "D">>
KW_UNAUTHENTICATED ==
    <<"U", "N", "A", "U", "T", "H", "E", "N", "T", "I", "C", "A", "T", "E", "D">>
KW_UNAVAILABLE == <<"U", "N", "A", "V", "A", "I", "L", "A", "B", "L", "E">>
KW_NOT_FOUND == <<"N", "O", "T", "_", "F", "O", "U", "N", "D">>
KW_ALREADY_EXISTS ==
    <<"A", "L", "R", "E", "A", "D", "Y", "_", "E", "X", "I", "S", "T", "S">>
KW_CANCELLED == <<"C", "A", "N", "C", "E", "L", "L", "E", "D">>
KW_DATA_LOSS == <<"D", "A", "T", "A", "_", "L", "O", "S", "S">>
KW_UNKNOWN == <<"U", "N", "K", "N", "O", "W", "N">>

\* the semantic keyword table, in its declaration (= iteration) order
ERROR_KEYWORD_MESSAGES ==
    << <<KW_INTERNAL, <<"<INTERNAL>">> >>,
       <<KW_QUOTA_EXCEEDED, <<"<QUOTA_EXCEEDED>">> >>,
       <<KW_PERMISSION_DENIED, <<"<PERMISSION_DENIED>">> >>,
       <<KW_INVALID_ARGUMENT, <<"<INVALID_ARGUMENT>">> >>,
       <<KW_DEADLINE_EXCEEDED, <<"<DEADLINE_EXCEEDED>">> >>,
       <<KW_RESOURCE_EXHAUSTED, <<"<RESOURCE_EXHAUSTED>">> >>,
       <<KW_UNAUTHENTICATED, <<"<UNAUTHENTICATED>">> >>,
       <<KW_UNAVAILABLE, <<"<UNAVAILABLE>">> >>,
       <<KW_NOT_FOUND, <<"<not found>">> >>,
       <<KW_ALREADY_EXISTS, <<"<ALREADY_EXISTS>">> >>,
       <<KW_CANCELLED, <<"<CANCELLED>">> >>,
       <<KW_DATA_LOSS, <<"<DATA_LOSS>">> >>,
       <<KW_UNKNOWN, <<"<UNKNOWN>">> >> >>

\* the fallback base message of create_user_friendly_message
GENERIC_MESSAGE == <<"<generic>">>

(***************************************************************************)
(* _find_best_custom_match                                                 *)
(***************************************************************************)
\* a sort key of the length alone, (-len(key),)
match_key_less_length_only(a, b) ==
    Len(a[1]) > Len(b[1])

\* the sort key (-len(key), key) of two (key, value) matches compared
match_key_less(a, b) ==
    \/ Len(a[1]) > Len(b[1])
    \/ Len(a[1]) = Len(b[1]) /\ StrLess(a[1], b[1])

\* list.sort is stable: an element goes behind the elements it is not below
RECURSIVE insert_match(_, _)
insert_match(sorted, x) ==
    IF sorted = <<>> THEN <<x>>
    ELSE IF match_key_less(x, Head(sorted)) THEN <<x>> \o sorted
    ELSE <<Head(sorted)>> \o insert_match(Tail(sorted), x)

RECURSIVE sort_matches(_)
sort_matches(ms) ==
    IF ms = <<>> THEN <<>>
    ELSE insert_match(sort_matches(SubSeq(ms, 1, Len(ms) - 1)), ms[Len(ms)])

\* the matches list: the items whose lowered key occurs in the lowered message
collect_matches(mappings, message_lower) ==
    SelectSeq(mappings, LAMBDA kv : in(lower(kv[1]), message_lower))

\* mappings: the items of self._custom_mappings; message: a Python value
find_best_custom_match(mappings, message) ==
    IF mappings = <<>> THEN PyNone
    ELSE IF ~IsStr(message) THEN Raise("AttributeError")
    ELSE LET matches == collect_matches(mappings, lower(message.v))
         IN  IF matches = <<>> THEN PyNone
             ELSE sort_matches(matches)[1][2]

(***************************************************************************)
(* JSON texts.  A document is written as the pair of its text and of the   *)
(* value json.loads returns for that text; json_loads looks a text up      *)
(* among the documents of the model and raises JSONDecodeError on any      *)
(* other text (no other text of the model is valid JSON).                  *)
(***************************************************************************)
JNull == [text |-> <<"n", "u", "l", "l">>, value |-> PyNone]
JNum(ds) == [text |-> ds, value |-> PyInt(int(ds))]
JString(s) == [text |-> <<"\"">> \o s \o <<"\"">>, value |-> PyStr(s)]
JArray(j) == [text |-> <<"[">> \o j.text \o <<"]">>, value |-> PyList(<<j.value>>)]

\* ms: the members, a sequence of <<name, document>>
RECURSIVE JMembersText(_)
JMembersText(ms) ==
    IF ms = <<>> THEN <<>>
    ELSE JString(ms[1][1]).text \o <<":">> \o ms[1][2].text
         \o (IF Len(ms) > 1 THEN <<",">> ELSE <<>>) \o JMembersText(Tail(ms))

JObject(ms) ==
    [text |-> <<"{">> \o JMembersText(ms) \o <<"}">>,
     value |-> PyDict([i \in 1..Len(ms) |-> <<ms[i][1], ms[i][2].value>>])]

K_error == <<"e", "r", "r", "o", "r">>
K_message == <<"m", "e", "s", "s", "a", "g", "e">>
K_type == <<"t", "y", "p", "e">>
K_code == <<"c", "o", "d", "e">>
K_status == <<"s", "t", "a", "t", "u", "s">>
K_details == <<"d", "e", "t", "a", "i", "l", "s">>

\* message texts of upstream bodies
TXT_too_many == <<"T", "o", "o", " ", "m", "a", "n", "y", " ", "r", "e", "q",
        "u", "e", "s", "t", "s", " ", "f", "r", "o", "m", " ", "y", "o", "u",
        "r", " ", "p", "r", "o", "j", "e", "c", "t">>
TXT_quota == <<"q", "u", "o", "t", "a", " ", "e", "x", "c", "e", "e", "d",
        "e", "d", " ", "f", "o", "r", " ", "t", "h", "i", "s", " ", "k", "e",
        "y">>
TXT_failed_precondition == <<"F", "A", "I", "L", "E", "D", "_", "P", "R", "E",
        "C", "O", "N", "D", "I", "T", "I", "O", "N">>
TXT_invalid_request == <<"i", "n", "v", "a", "l", "i", "d", "_", "r", "e",
        "q", "u", "e", "s", "t", "_", "e", "r", "r", "o", "r">>

\* the fields an upstream error object may carry: absent, or one member
CodeOptions ==
    { <<>>,
      << <<K_code, JNum(<<"4", "2", "9">>)>> >>,
      << <<K_code, JNum(<<"4", "1", "8">>)>> >>,
      << <<K_code, JNull>> >>,
      << <<K_code, JString(<<"4", "2", "9">>)>> >>,
      << <<K_code, JArray(JNum(<<"1">>))>> >> }

MessageOptions ==
    { <<>>,
      << <<K_message, JString(TXT_too_many)>> >>,
      << <<K_message, JString(TXT_quota)>> >>,
      << <<K_message, JNum(<<"5">>)>> >>,
      << <<K_message, JNull>> >> }

StatusOptions ==
    { <<>>,
      << <<K_status, JString(KW_RESOURCE_EXHAUSTED)>> >>,
      << <<K_status, JString(TXT_failed_precondition)>> >>,
      << <<K_status, JNull>> >>,
      << <<K_status, JArray(JNum(<<"1">>))>> >> }

DetailsOptions == { <<>>, << <<K_details, JArray(JNum(<<"7">>))>> >> }

TypeOptions ==
    { <<>>,
      << <<K_type, JString(TXT_invalid_request)>> >>,
      << <<K_type, JNull>> >> }

\* {"error": {...}}: the Google API error format
ProviderADocs ==
    { JObject(<< <<K_error, JObject(c \o m \o s \o d)>> >>) :
        c \in CodeOptions, m \in MessageOptions, s \in StatusOptions,
        d \in DetailsOptions }

\* {"message": ..., "type": ...}: the OpenAI error format
ProviderBDocs ==
    { JObject(m \o t) : m \in MessageOptions \ {<<>>}, t \in TypeOptions }

\* objects of neither format, and an "error" member that is no object
OddDocs ==
    { JObject(<<>>),
      JObject(<< <<K_type, JString(TXT_invalid_request)>> >>),
      JObject(<< <<K_error, JString(TXT_quota)>> >>),
      JObject(<< <<K_error, JNull>> >>) }

ErrorDocs == ProviderADocs \cup ProviderBDocs \cup OddDocs

\* values of CUSTOM_ERROR_MAPPINGS_JSON
K_quota == <<"q", "u", "o", "t", "a">>
K_Quota == <<"Q", "u", "o", "t", "a">>
V_call_sales == <<"c", "a", "l", "l", " ", "s", "a", "l", "e", "s">>
V_upgrade == <<"u", "p", "g", "r", "a", "d", "e", " ", "p", "l", "a", "n">>
V_json == <<"f", "r", "o", "m", " ", "j", "s", "o", "n">>

MappingDocs ==
    { JObject(<< <<K_quota, JString(V_json)>> >>),
      JObject(<< <<K_Quota, JString(V_json)>>, <<K_type, JString(<<>>)>> >>),
      JArray(JNum(<<"1">>)) }

JsonDocs == ErrorDocs \cup MappingDocs

\* json.loads(text): the parsed value, or Raise("JSONDecodeError")
json_loads(text) ==
    LET s == strip(text)
    IN  IF \E j \in JsonDocs : j.text = s
        THEN (CHOOSE j \in JsonDocs : j.text = s).value
        ELSE Raise("JSONDecodeError")

(***************************************************************************)
(* extract_error_info                                                      *)
(***************************************************************************)
StatusPhrase == <<"s", "t", "a", "t", "u", "s", " ", "c", "o", "d", "e", " ">>

RECURSIVE DigitRun(_, _)
DigitRun(s, i) ==
    IF i <= Len(s) /\ IsDigit(s[i]) THEN <<s[i]>> \o DigitRun(s, i + 1) ELSE <<>>

\* re.search(r"status code (\d+)", s): group(1) of the leftmost match, or <<>>
search_status_code(s) ==
    LET at == {i \in 1..Len(s) :
                   /\ StartsWithAt(s, i, StatusPhrase)
                   /\ DigitRun(s, i + Len(StatusPhrase)) # <<>>}
    IN  IF at = {} THEN <<>>
        ELSE DigitRun(s, (CHOOSE i \in at : \A j \in at : i <= j) + Len(StatusPhrase))

\* the loop over ERROR_KEYWORD_MESSAGES: the first keyword, in table order,
\* that occurs in the upper-cased text; "UNKNOWN" stays when none does
first_keyword(error_content) ==
    LET up == upper(error_content)
        hits == {i \in 1..Len(ERROR_KEYWORD_MESSAGES) :
                    in(ERROR_KEYWORD_MESSAGES[i][1], up)}
    IN  IF hits = {} THEN KW_UNKNOWN
        ELSE ERROR_KEYWORD_MESSAGES[CHOOSE i \in hits : \A j \in hits : i <= j][1]

\* error_info as first built
initial_error_info ==
    [status_code |-> PyNone, original_message |-> PyStr(<<>>),
     error_type |-> PyStr(KW_UNKNOWN), details |-> PyNone]

\* error_content: a str.  Both except clauses leave the initial record with
\* original_message = error_content: the only statements that can raise
\* (json.loads, and error_obj.get on an "error" member that is no dict)
\* run before any field is assigned.
extract_error_info(error_content) ==
    LET fallback ==
            [initial_error_info EXCEPT !.original_message = PyStr(error_content)]
        stripped == strip(error_content)
    IN  IF stripped # <<>> /\ Head(stripped) = "{"
        THEN LET error_data == json_loads(error_content)
             IN  IF IsRaise(error_data) THEN fallback
                 ELSE IF ItemsHas(error_data.v, K_error)
                 THEN LET error_obj == ItemsGet(error_data.v, K_error, PyNone)
                      IN  IF error_obj.t # "dict" THEN fallback
                          ELSE [status_code |->
                                    ItemsGet(error_obj.v, K_code, PyNone),
                                original_message |->
                                    ItemsGet(error_obj.v, K_message, PyStr(<<>>)),
                                error_type |->
                                    ItemsGet(error_obj.v, K_status, PyStr(KW_UNKNOWN)),
                                details |->
                                    ItemsGet(error_obj.v, K_details, PyNone)]
                 ELSE IF ItemsHas(error_data.v, K_message)
                 THEN [initial_error_info EXCEPT
                          !.original_message =
                              ItemsGet(error_data.v, K_message, PyStr(<<>>)),
                          !.error_type =
                              ItemsGet(error_data.v, K_type, PyStr(KW_UNKNOWN))]
                 ELSE initial_error_info
        ELSE LET digits == search_status_code(error_content)
             IN  [status_code |->
                      IF digits # <<>> THEN PyInt(int(digits)) ELSE PyNone,
                  original_message |-> PyStr(error_content),
                  error_type |-> PyStr(first_keyword(error_content)),
                  details |-> PyNone]

(***************************************************************************)
(* _clean_technical_message: the four re.sub passes, then the length test  *)
(***************************************************************************)
HTTPS_SCHEME == <<"h", "t", "t", "p", "s", ":", "/", "/">>
HTTP_SCHEME == <<"h", "t", "t", "p", ":", "/", "/">>

\* the first index >= i of s that holds a whitespace character, or Len(s) + 1
RECURSIVE NonSpaceEnd(_, _)
NonSpaceEnd(s, i) ==
    IF i <= Len(s) /\ ~IsSpace(s[i]) THEN NonSpaceEnd(s, i + 1) ELSE i

\* the first index >= i of s that holds no word character, or Len(s) + 1
RECURSIVE WordEnd(_, _)
WordEnd(s, i) ==
    IF i <= Len(s) /\ IsWordChar(s[i]) THEN WordEnd(s, i + 1) ELSE i

\* the first index >= i of s that holds no whitespace, or Len(s) + 1
RECURSIVE SpaceEnd(_, _)
SpaceEnd(s, i) ==
    IF i <= Len(s) /\ IsSpace(s[i]) THEN SpaceEnd(s, i + 1) ELSE i

\* https?://[^\s]+ matched at i: the length of the scheme matched, or 0
UrlSchemeAt(s, i) ==
    LET n == IF StartsWithAt(s, i, HTTPS_SCHEME) THEN Len(HTTPS_SCHEME)
             ELSE IF StartsWithAt(s, i, HTTP_SCHEME) THEN Len(HTTP_SCHEME)
             ELSE 0
    IN  IF n > 0 /\ i + n <= Len(s) /\ ~IsSpace(s[i + n]) THEN n ELSE 0

\* re.sub(r'https?://[^\s]+', '', s), from index i on
RECURSIVE sub_urls(_, _)
sub_urls(s, i) ==
    IF i > Len(s) THEN <<>>
    ELSE IF UrlSchemeAt(s, i) > 0
    THEN sub_urls(s, NonSpaceEnd(s, i + UrlSchemeAt(s, i)))
    ELSE <<s[i]>> \o sub_urls(s, i + 1)

\* a word the pattern \b[A-Z_]{2,}\b matches: both \b make the match a whole
\* run of word characters, all of them upper-case letters or underscores
IsTechnicalCode(w) ==
    /\ Len(w) >= 2
    /\ \A k \in 1..Len(w) : IsUpper(w[k]) \/ w[k] = "_"

\* re.sub(r'\b[A-Z_]{2,}\b', '', s), from index i on (i never inside a word)
RECURSIVE sub_codes(_, _)
sub_codes(s, i) ==
    IF i > Len(s) THEN <<>>
    ELSE IF IsWordChar(s[i])
    THEN LET e == WordEnd(s, i)
             w == SubSeq(s, i, e - 1)
         IN  (IF IsTechnicalCode(w) THEN <<>> ELSE w) \o sub_codes(s, e)
    ELSE <<s[i]>> \o sub_codes(s, i + 1)

\* re.sub(r'\([^)]*\)', '', s), from index i on
RECURSIVE sub_parens(_, _)
sub_parens(s, i) ==
    IF i > Len(s) THEN <<>>
    ELSE IF s[i] = "(" /\ \E j \in (i + 1)..Len(s) : s[j] = ")"
    THEN sub_parens(s, 1 + CHOOSE j \in (i + 1)..Len(s) :
                              /\ s[j] = ")"
                              /\ \A k \in (i + 1)..(j - 1) : s[k] # ")")
    ELSE <<s[i]>> \o sub_parens(s, i + 1)

\* re.sub(r'\s+', ' ', s), from index i on
RECURSIVE sub_spaces(_, _)
sub_spaces(s, i) ==
    IF i > Len(s) THEN <<>>
    ELSE IF IsSpace(s[i]) THEN <<" ">> \o sub_spaces(s, SpaceEnd(s, i))
    ELSE <<s[i]>> \o sub_spaces(s, i + 1)

\* the text after the four passes and strip(), before the length test
sanitize(message) ==
    strip(sub_spaces(sub_parens(sub_codes(sub_urls(message, 1), 1), 1), 1))

\* a cleaning that returns the text of any length
clean_technical_message_any_length(message) ==
    sanitize(message)

\* message: the characters of a str
clean_technical_message(message) ==
    LET cleaned == sanitize(message)
    IN  IF Len(cleaned) < 10 THEN <<>> ELSE cleaned

(***************************************************************************)
(* create_user_friendly_message and handle_api_error                       *)
(***************************************************************************)
\* status_code in self.DEFAULT_ERROR_MESSAGES, for a hashable status_code
InDefaultMessages(status_code) ==
    /\ status_code.t = "int"
    /\ \E i \in 1..Len(DEFAULT_ERROR_MESSAGES) :
          DEFAULT_ERROR_MESSAGES[i][1] = status_code.v

\* the same choice with the keyword table asked before the status table
base_message_keyword_first(status_code, error_type) ==
    IF ~Hashable(error_type) THEN Raise("TypeError")
    ELSE IF IsStr(error_type) /\ ItemsHas(ERROR_KEYWORD_MESSAGES, error_type.v)
    THEN PyStr(ItemsGet(ERROR_KEYWORD_MESSAGES, error_type.v, <<>>))
    ELSE IF Truthy(status_code) /\ ~Hashable(status_code) THEN Raise("TypeError")
    ELSE IF Truthy(status_code) /\ InDefaultMessages(status_code)
    THEN PyStr(DEFAULT_ERROR_MESSAGES[
             CHOOSE i \in 1..Len(DEFAULT_ERROR_MESSAGES) :
                 DEFAULT_ERROR_MESSAGES[i][1] = status_code.v][2])
    ELSE PyStr(GENERIC_MESSAGE)

\* the if / elif / else that picks base_message: a message text, or a raise
\* (the in test hashes its left operand: TypeError on a list or a dict)
base_message(status_code, error_type) ==
    IF Truthy(status_code) /\ ~Hashable(status_code) THEN Raise("TypeError")
    ELSE IF Truthy(status_code) /\ InDefaultMessages(status_code)
    THEN PyStr(DEFAULT_ERROR_MESSAGES[
             CHOOSE i \in 1..Len(DEFAULT_ERROR_MESSAGES) :
                 DEFAULT_ERROR_MESSAGES[i][1] = status_code.v][2])
    ELSE IF ~Hashable(error_type) THEN Raise("TypeError")
    ELSE IF IsStr(error_type) /\ ItemsHas(ERROR_KEYWORD_MESSAGES, error_type.v)
    THEN PyStr(ItemsGet(ERROR_KEYWORD_MESSAGES, error_type.v, <<>>))
    ELSE PyStr(GENERIC_MESSAGE)

\* the tail of create_user_friendly_message: base, or base + ": " + cleaned
compose_message(base, original_message) ==
    IF ~Truthy(original_message) THEN base
    ELSE IF ~IsStr(original_message) THEN Raise("TypeError")
    ELSE LET cleaned_message == clean_technical_message(original_message.v)
         IN  IF cleaned_message # <<>>
             THEN PyStr(base.v \o <<":", " ">> \o cleaned_message)
             ELSE base

\* mappings: the items of self._custom_mappings; error_info: a record with
\* the four keys.  The result is a str, or the exception that escapes.
create_user_friendly_message(mappings, error_info) ==
    LET custom_message ==
            find_best_custom_match(mappings, error_info.original_message)
        base == base_message(error_info.status_code, error_info.error_type)
    IN  IF IsRaise(custom_message) THEN custom_message
        ELSE IF Truthy(custom_message) THEN custom_message
        ELSE IF IsRaise(base) THEN base
        ELSE compose_message(base, error_info.original_message)

\* dict.get(key, default) on the error_info record
InfoGet(error_info, key, default) ==
    IF key \in DOMAIN error_info THEN error_info[key] ELSE default

\* a condition that asks the debug mode alone
include_original_error_debug_only(include_original, debug_mode) ==
    debug_mode

\* if include_original or getattr(settings, 'DEBUG_MODE', False)
include_original_error(include_original, debug_mode) ==
    include_original \/ debug_mode

\* the envelope {"error": {...}}, or the exception that escapes
handle_api_error(mappings, debug_mode, error_content, include_original) ==
    LET error_info == extract_error_info(error_content)
        user_message == create_user_friendly_message(mappings, error_info)
        error == [code |-> InfoGet(error_info, "status_code", PyInt(500)),
                  message |-> user_message,
                  status |-> "FAILED"]
        original_error ==
            [message |-> InfoGet(error_info, "original_message", PyNone),
             type |-> InfoGet(error_info, "error_type", PyNone),
             details |-> InfoGet(error_info, "details", PyNone)]
    IN  IF IsRaise(user_message) THEN user_message
        ELSE IF include_original_error(include_original, debug_mode)
        THEN [error |-> error @@ [original_error |-> original_error]]
        ELSE [error |-> error]

(***************************************************************************)
(* _load_custom_mappings.  settings.CUSTOM_ERROR_MAPPINGS is the items of  *)
(* a dict; os.environ is the items <<name, value>> of the environment, in  *)
(* its iteration order.                                                    *)
(***************************************************************************)
ENV_PREFIX == <<"C", "U", "S", "T", "O", "M", "_", "E", "R", "R", "O", "R",
        "_", "M", "A", "P", "P", "I", "N", "G", "_">>
ENV_JSON_NAME == <<"C", "U", "S", "T", "O", "M", "_", "E", "R", "R", "O", "R",
        "_", "M", "A", "P", "P", "I", "N", "G", "S", "_", "J", "S", "O", "N">>

\* env_value.split(':', 1) of a value that holds a colon
split_first_colon(env_value) ==
    LET i == CHOOSE i \in 1..Len(env_value) :
                 /\ env_value[i] = ":"
                 /\ \A j \in 1..(i - 1) : env_value[j] # ":"
    IN  <<SubSeq(env_value, 1, i - 1), SubSeq(env_value, i + 1, Len(env_value))>>

\* the loop over os.environ.items() that builds env_mappings
RECURSIVE env_mappings(_)
env_mappings(env) ==
    IF env = <<>> THEN <<>>
    ELSE LET rest == env_mappings(SubSeq(env, 1, Len(env) - 1))
             env_key == env[Len(env)][1]
             env_value == env[Len(env)][2]
         IN  IF StartsWithAt(env_key, 1, ENV_PREFIX) /\ in(<<":">>, env_value)
             THEN LET kv == split_first_colon(env_value)
                  IN  ItemsSet(rest, strip(kv[1]), PyStr(strip(kv[2])))
             ELSE rest

\* step 1: the configuration object
load_from_config(mappings, config_mappings) ==
    IF config_mappings # <<>> THEN ItemsUpdate(mappings, config_mappings)
    ELSE mappings

\* step 2: the prefixed environment variables
load_from_env(mappings, env) ==
    IF env_mappings(env) # <<>> THEN ItemsUpdate(mappings, env_mappings(env))
    ELSE mappings

\* step 3: the JSON environment variable
load_from_json(mappings, env) ==
    LET json_mappings_env == ItemsGet(env, ENV_JSON_NAME, <<>>)
    IN  IF json_mappings_env = <<>> THEN mappings
        ELSE LET json_mappings == json_loads(json_mappings_env)
             IN  IF json_mappings.t = "dict"
                 THEN ItemsUpdate(mappings, json_mappings.v)
                 ELSE mappings

\* a load that goes on with the table it finds
cleared_keeps_entries(mappings) == mappings

\* self._custom_mappings = {}: the table is rebound to an empty dict,
\* whatever it held
cleared(mappings) == <<>>

\* the whole of _load_custom_mappings, run without interruption on a handler
\* whose table is mappings
load_custom_mappings(mappings, config_mappings, env) ==
    load_from_json(
        load_from_env(load_from_config(cleared(mappings), config_mappings), env),
        env)

(***************************************************************************)
(* The state                                                               *)
(***************************************************************************)
VARIABLES
    settings,          \* app.config.config.settings: CUSTOM_ERROR_MAPPINGS,
                       \* DEBUG_MODE, USER_FRIENDLY_ERRORS_ENABLED,
                       \* INCLUDE_TECHNICAL_DETAILS
    environ,           \* os.environ
    custom_mappings,   \* user_friendly_error_handler._custom_mappings
    load_pc,           \* where _load_custom_mappings stands
    before_reload,     \* history: the table when the running reload began
    reloads_since_change,  \* history: reloads completed since the sources
                       \* were last changed
    caller_pc,         \* "idle", or "returned": a call has just returned
    error_content,     \* the call's arguments ...
    include_original,
    error_info,        \* ... and its locals
    custom_message,
    user_message,
    response,          \* what the call returned, or the exception it raised
    observed,          \* history: the table the call's lookup read
    stream_pc,         \* where the streaming generator stands
    stream_client,     \* "gemini" or "openai"
    upstream,          \* the upstream response: status_code, body, lines
    emitted,           \* the items the generator has yielded
    stream_response    \* friendly_response, or the exception in flight

handler_vars == <<settings, environ, custom_mappings, load_pc, before_reload,
                  reloads_since_change>>
call_vars == <<caller_pc, error_content, include_original, error_info,
               custom_message, user_message, response, observed>>
stream_vars == <<stream_pc, stream_client, upstream, emitted, stream_response>>
vars == <<handler_vars, call_vars, stream_vars>>

\* a variable that holds nothing
Unset == [t |-> "unset"]

IsEnvelope(r) == "error" \in DOMAIN r
Raised(r) == "t" \in DOMAIN r /\ r.t = "raise"

(***************************************************************************)
(* Inputs                                                                  *)
(***************************************************************************)
ENV_1 == <<"C", "U", "S", "T", "O", "M", "_", "E", "R", "R", "O", "R", "_",
        "M", "A", "P", "P", "I", "N", "G", "_", "1">>
ENV_2 == <<"C", "U", "S", "T", "O", "M", "_", "E", "R", "R", "O", "R", "_",
        "M", "A", "P", "P", "I", "N", "G", "_", "2">>
ENV_PATH == <<"P", "A", "T", "H">>

\* free-text and malformed bodies
RawTexts ==
    { <<>>,
      <<"s", "e", "r", "v", "i", "c", "e", " ", "d", "o", "w", "n">>,
      <<"E", "r", "r", "o", "r", ":", " ", "s", "t", "a", "t", "u", "s", " ",
        "c", "o", "d", "e", " ", "5", "0", "3", ",", " ", "s", "e", "r", "v",
        "i", "c", "e", " ", "d", "o", "w", "n">>,
      <<"S", "t", "a", "t", "u", "s", " ", "C", "o", "d", "e", " ", "5", "0",
        "3", " ", "u", "p", "s", "t", "r", "e", "a", "m", " ", "f", "a", "i",
        "l", "e", "d">>,
      <<"s", "t", "a", "t", "u", "s", " ", "c", "o", "d", "e", " ", "4", "1",
        "8", " ", "t", "e", "a", "p", "o", "t">>,
      <<"i", "n", "t", "e", "r", "n", "a", "l", " ", "f", "a", "i", "l", "u",
        "r", "e", ":", " ", "u", "n", "k", "n", "o", "w", "n", " ", "c", "a",
        "u", "s", "e">>,
      <<"(", "T", "E", "C", "H", ")", " ", "h", "t", "t", "p", "s", ":", "/",
        "/", "x", ".", "i", "o", " ", "A", "B", "C">>,
      <<"s", "t", "a", "t", "u", "s", " ", "c", "o", "d", "e", " ", "4", "2",
        "9", " ", "R", "E", "S", "O", "U", "R", "C", "E", "_", "E", "X", "H",
        "A", "U", "S", "T", "E", "D", " ", "s", "e", "e", " ", "h", "t", "t",
        "p", "s", ":", "/", "/", "x", ".", "i", "o", "/", "q", " ", "(", "r",
        "e", "t", "r", "y", " ", "l", "a", "t", "e", "r", ")", " ", "p", "l",
        "e", "a", "s", "e">>,
      <<" ", " ", "n", "i", "n", "e", " ", "c", "h", "a", "r", " ", " ", "(",
        "x", ")">>,
      <<"t", "e", "n", " ", "c", "h", "a", "r", "s", "!", " ", "(", "x", ")">>,
      TXT_quota,
      <<" ", "{", "o", "o", "p", "s">>,
      <<"{", "\"", "e", "r", "r", "o", "r", "\"", ":", " ", "o", "o", "p",
        "s", "}">> }

\* the raw bodies handle_api_error is called with
ErrorBodies ==
    RawTexts \cup {j.text : j \in ErrorDocs}
    \cup {<<" ", "\n">> \o JObject(<< <<K_message, JString(TXT_too_many)>> >>).text}

\* the configurations the handler is constructed under
HandlerConfigs == { <<>>, << <<K_quota, PyStr(V_call_sales)>> >> }
HandlerEnvirons == { <<>>, << <<ENV_1, <<"q", "u", "o", "t", "a", ":">>>> >> }

MakeSettings(config_mappings, debug_mode, friendly, technical) ==
    [CUSTOM_ERROR_MAPPINGS |-> config_mappings, DEBUG_MODE |-> debug_mode,
     USER_FRIENDLY_ERRORS_ENABLED |-> friendly,
     INCLUDE_TECHNICAL_DETAILS |-> technical]

(***************************************************************************)
(* Construction: the module-level UserFriendlyErrorHandler() has run       *)
(***************************************************************************)
CallIdle ==
    /\ caller_pc = "idle"
    /\ error_content = Unset
    /\ include_original = FALSE
    /\ error_info = Unset
    /\ custom_message = Unset
    /\ user_message = Unset
    /\ response = Unset
    /\ observed = Unset

StreamIdle ==
    /\ stream_pc = "idle"
    /\ stream_client = "none"
    /\ upstream = Unset
    /\ emitted = <<>>
    /\ stream_response = Unset

Constructed(configs, environs, debug_modes, friendly, technical) ==
    /\ \E c \in configs, d \in debug_modes, f \in friendly, t \in technical :
          settings = MakeSettings(c, d, f, t)
    /\ environ \in environs
    /\ custom_mappings =
           load_custom_mappings(<<>>, settings.CUSTOM_ERROR_MAPPINGS, environ)
    /\ load_pc = "idle"
    /\ before_reload = custom_mappings
    /\ reloads_since_change = 0
    /\ CallIdle
    /\ StreamIdle

Init == Constructed(HandlerConfigs, HandlerEnvirons, BOOLEAN, {TRUE}, {FALSE})

(***************************************************************************)
(* Calls of the handler                                                    *)
(***************************************************************************)
\* handle_api_error(body, inc), with the locals it and the functions it calls
\* go through; the lookup reads self._custom_mappings as it stands
HandleApiError(body, inc) ==
    /\ caller_pc = "idle"
    /\ error_content' = body
    /\ include_original' = inc
    /\ error_info' = extract_error_info(body)
    /\ custom_message' =
           find_best_custom_match(custom_mappings, error_info'.original_message)
    /\ user_message' = create_user_friendly_message(custom_mappings, error_info')
    /\ response' = handle_api_error(custom_mappings, settings.DEBUG_MODE, body, inc)
    /\ observed' = custom_mappings
    /\ caller_pc' = "returned"
    /\ UNCHANGED <<handler_vars, stream_vars>>

\* create_user_friendly_message(info), called on a record directly
CreateUserFriendlyMessage(info) ==
    /\ caller_pc = "idle"
    /\ error_info' = info
    /\ custom_message' =
           find_best_custom_match(custom_mappings, info.original_message)
    /\ user_message' = create_user_friendly_message(custom_mappings, info)
    /\ observed' = custom_mappings
    /\ caller_pc' = "returned"
    /\ UNCHANGED <<error_content, include_original, response>>
    /\ UNCHANGED <<handler_vars, stream_vars>>

\* the caller takes the result; the call's frame is gone
Return ==
    /\ caller_pc = "returned"
    /\ caller_pc' = "idle"
    /\ error_content' = Unset
    /\ include_original' = FALSE
    /\ error_info' = Unset
    /\ custom_message' = Unset
    /\ user_message' = Unset
    /\ response' = Unset
    /\ observed' = Unset
    /\ UNCHANGED <<handler_vars, stream_vars>>

Next ==
    \/ \E body \in ErrorBodies, inc \in BOOLEAN : HandleApiError(body, inc)
    \/ Return

Spec == Init /\ [][Next]_vars

(***************************************************************************)
(* create_user_friendly_message on records, under many tables              *)
(***************************************************************************)
\* the number of entries of a configured table
MaxTableSize == 2

LookupKeys == { <<"a">>, <<"a", "b">>, <<"A", "B">>, <<"b", "a">>, <<"a", "b", "c">> }
LookupValues == { <<>>, V_call_sales, V_upgrade }
LookupTexts == { <<>>, <<"a", "b">>, <<"x", "A", "b", "c">>, <<"a", "b", "a">>, <<"z", "z">> }

\* the tables: every sequence of at most MaxTableSize entries with distinct keys
LookupTables ==
    { t \in UNION { [1..n -> LookupKeys \X {PyStr(v) : v \in LookupValues}] :
                        n \in 0..MaxTableSize } :
        \A i, j \in 1..Len(t) : i # j => t[i][1] # t[j][1] }

LookupRecords ==
    [status_code : {PyNone, PyInt(429)},
     original_message : {PyStr(x) : x \in LookupTexts},
     error_type : {PyStr(KW_UNKNOWN), PyStr(KW_RESOURCE_EXHAUSTED)},
     details : {PyNone}]

InitLookup == Constructed(LookupTables, {<<>>}, {FALSE}, {TRUE}, {FALSE})

NextLookup ==
    \/ \E info \in LookupRecords : CreateUserFriendlyMessage(info)
    \/ Return

SpecLookup == InitLookup /\ [][NextLookup]_vars

(***************************************************************************)
(* reload_custom_mappings, statement by statement, beside calls of the     *)
(* handler from other threads.  The sources change only between reloads.   *)
(***************************************************************************)
\* the reloads counted since the sources were last changed
MaxReloads == 2

ReloadConfigs ==
    { <<>>,
      << <<K_quota, PyStr(V_call_sales)>> >>,
      << <<K_quota, PyStr(V_call_sales)>>, <<K_Quota, PyStr(V_upgrade)>> >> }

ReloadEnvirons ==
    { <<>>,
      << <<ENV_1, <<"q", "u", "o", "t", "a", ":", " ", "u", "p", "g", "r", "a",
                    "d", "e", " ", "p", "l", "a", "n">> >>,
         <<ENV_PATH, <<"/", "b", "i", "n", ":", "/", "u", "s", "r", "/", "b",
                       "i", "n">> >> >>,
      << <<ENV_1, <<"n", "o", "c", "o", "l", "o", "n">> >>,
         <<ENV_2, <<" ", "t", "y", "p", "e", " ", ":", "a", ":", "b">> >>,
         <<ENV_JSON_NAME, JObject(<< <<K_quota, JString(V_json)>> >>).text>> >>,
      << <<ENV_JSON_NAME, JArray(JNum(<<"1">>)).text>> >>,
      << <<ENV_2, <<"Q", "u", "o", "t", "a", ":", "x">> >>,
         <<ENV_JSON_NAME, <<"{", "\"", "q", "u", "o", "t", "a", "\"">> >> >>,
      << <<ENV_1, <<"n", "o", "c", "o", "l", "o", "n">> >>,
         <<ENV_2, <<" ", "q", "u", "o", "t", "a", " ", ":", "a", ":", "b">> >>,
         <<ENV_JSON_NAME, JObject(<< <<K_quota, JString(V_json)>> >>).text>> >> }

ReloadBodies == { TXT_quota, <<"s", "e", "r", "v", "i", "c", "e", " ", "d",
        "o", "w", "n">> }

\* settings.CUSTOM_ERROR_MAPPINGS is replaced
ChangeConfig(c) ==
    /\ load_pc = "idle"
    /\ c # settings.CUSTOM_ERROR_MAPPINGS
    /\ settings' = [settings EXCEPT !.CUSTOM_ERROR_MAPPINGS = c]
    /\ reloads_since_change' = 0
    /\ UNCHANGED <<environ, custom_mappings, load_pc, before_reload>>
    /\ UNCHANGED <<call_vars, stream_vars>>

\* the environment is replaced
ChangeEnviron(e) ==
    /\ load_pc = "idle"
    /\ e # environ
    /\ environ' = e
    /\ reloads_since_change' = 0
    /\ UNCHANGED <<settings, custom_mappings, load_pc, before_reload>>
    /\ UNCHANGED <<call_vars, stream_vars>>

\* reload_custom_mappings calls _load_custom_mappings, whose first statement
\* binds self._custom_mappings to an empty dict
ReloadStart ==
    /\ load_pc = "idle"
    /\ before_reload' = custom_mappings
    /\ custom_mappings' = cleared(custom_mappings)
    /\ load_pc' = "config"
    /\ UNCHANGED <<settings, environ, reloads_since_change>>
    /\ UNCHANGED <<call_vars, stream_vars>>

LoadConfig ==
    /\ load_pc = "config"
    /\ custom_mappings' =
           load_from_config(custom_mappings, settings.CUSTOM_ERROR_MAPPINGS)
    /\ load_pc' = "env"
    /\ UNCHANGED <<settings, environ, before_reload, reloads_since_change>>
    /\ UNCHANGED <<call_vars, stream_vars>>

LoadEnv ==
    /\ load_pc = "env"
    /\ custom_mappings' = load_from_env(custom_mappings, environ)
    /\ load_pc' = "json"
    /\ UNCHANGED <<settings, environ, before_reload, reloads_since_change>>
    /\ UNCHANGED <<call_vars, stream_vars>>

LoadJson ==
    /\ load_pc = "json"
    /\ custom_mappings' = load_from_json(custom_mappings, environ)
    /\ load_pc' = "idle"
    /\ reloads_since_change' =
           IF reloads_since_change < MaxReloads
           THEN reloads_since_change + 1 ELSE MaxReloads
    /\ UNCHANGED <<settings, environ, before_reload>>
    /\ UNCHANGED <<call_vars, stream_vars>>

InitReload == Constructed(ReloadConfigs, ReloadEnvirons, {FALSE}, {TRUE}, {FALSE})

NextReload ==
    \/ \E c \in ReloadConfigs : ChangeConfig(c)
    \/ \E e \in ReloadEnvirons : ChangeEnviron(e)
    \/ ReloadStart
    \/ LoadConfig
    \/ LoadEnv
    \/ LoadJson
    \/ \E body \in ReloadBodies : HandleApiError(body, FALSE)
    \/ Return

SpecReload == InitReload /\ [][NextReload]_vars

(***************************************************************************)
(* api_client.py: the error path of the two stream_generate_content        *)
(* generators.  A consumer pulls the items one at a time.                  *)
(***************************************************************************)
\* the most lines an upstream response carries
MaxLines == 2

\* the envelope built when USER_FRIENDLY_ERRORS_ENABLED is off
raw_error_response(status_code, content) ==
    [error |-> [code |-> PyInt(status_code), message |-> PyStr(content),
                status |-> "FAILED"]]

\* friendly_response as both clients compute it: an envelope, or the
\* exception that escapes user_friendly_error_handler.handle_api_error
friendly_response(status_code, content) ==
    IF settings.USER_FRIENDLY_ERRORS_ENABLED
    THEN handle_api_error(custom_mappings, settings.DEBUG_MODE, content,
                          settings.INCLUDE_TECHNICAL_DETAILS)
    ELSE raw_error_response(status_code, content)

\* ApiErrorWithResponse(message, status_code, error_response)
ApiErrorWithResponse(status_code, error_response) ==
    [t |-> "raise", v |-> "ApiErrorWithResponse",
     status_code |-> status_code, error_response |-> error_response]

\* f"data: {json.dumps(envelope)}\n\n"; the JSON text is written as the
\* value it serialises
sse_frame(envelope) ==
    [kind |-> "frame", prefix |-> "data: ", json |-> envelope, suffix |-> "\n\n"]

\* a line of response.aiter_lines()
relayed_line(n) ==
    [kind |-> "line", text |-> <<"l", "i", "n", "e", " ">> \o <<Ascii[16 + n]>>]

StreamBodies ==
    { TXT_quota,
      JObject(<< <<K_error,
                   JObject(<< <<K_code, JNum(<<"4", "2", "9">>)>>,
                              <<K_message, JString(TXT_too_many)>>,
                              <<K_status, JString(KW_RESOURCE_EXHAUSTED)>> >>)>> >>).text,
      JObject(<< <<K_error, JObject(<< <<K_message, JNum(<<"5">>)>> >>)>> >>).text }

StreamStatuses == {200, 429, 500}

\* stream_generate_content(...) is called and the upstream response arrives
StreamOpen(client, status_code, body, n) ==
    /\ stream_pc = "idle"
    /\ stream_client' = client
    /\ upstream' = [status_code |-> status_code, body |-> body,
                    lines |-> [i \in 1..n |-> relayed_line(i)]]
    /\ emitted' = <<>>
    /\ stream_pc' = "open"
    /\ UNCHANGED <<handler_vars, call_vars, stream_response>>

\* status != 200: the body is read and the friendly response computed, in
\* GeminiApiClient inline and in OpenaiApiClient inside self._handle_api_error
StreamHandleError ==
    /\ stream_pc = "open"
    /\ upstream.status_code # 200
    /\ stream_response' = friendly_response(upstream.status_code, upstream.body)
    /\ stream_pc' = "handled"
    /\ UNCHANGED <<handler_vars, call_vars, stream_client, upstream, emitted>>

\* the handler's own exception leaves the generator, in either client
StreamErrorEscapes ==
    /\ stream_pc = "handled"
    /\ Raised(stream_response)
    /\ stream_pc' = "raised"
    /\ UNCHANGED <<handler_vars, call_vars, stream_client, upstream, emitted,
                   stream_response>>

\* GeminiApiClient: the frame is yielded
GeminiYieldError ==
    /\ stream_pc = "handled"
    /\ stream_client = "gemini"
    /\ ~Raised(stream_response)
    /\ emitted' = Append(emitted, sse_frame(stream_response))
    /\ stream_pc' = "error_sent"
    /\ UNCHANGED <<handler_vars, call_vars, stream_client, upstream,
                   stream_response>>

\* OpenaiApiClient: self._handle_api_error ends in raise error_exception, so
\* the generator is left before the yield that follows the call
OpenaiRaiseError ==
    /\ stream_pc = "handled"
    /\ stream_client = "openai"
    /\ ~Raised(stream_response)
    /\ stream_response' =
           ApiErrorWithResponse(upstream.status_code, stream_response)
    /\ stream_pc' = "raised"
    /\ UNCHANGED <<handler_vars, call_vars, stream_client, upstream, emitted>>

\* status 200: the next upstream line is yielded
RelayLine ==
    /\ stream_pc = "open"
    /\ upstream.status_code = 200
    /\ Len(emitted) < Len(upstream.lines)
    /\ emitted' = Append(emitted, upstream.lines[Len(emitted) + 1])
    /\ UNCHANGED <<handler_vars, call_vars, stream_pc, stream_client, upstream,
                   stream_response>>

\* the generator returns: after the error frame, or after the last line
StreamEnd ==
    /\ \/ stream_pc = "error_sent"
       \/ /\ stream_pc = "open"
          /\ upstream.status_code = 200
          /\ Len(emitted) = Len(upstream.lines)
    /\ stream_pc' = "done"
    /\ UNCHANGED <<handler_vars, call_vars, stream_client, upstream, emitted,
                   stream_response>>

\* the consumer drops the finished generator
StreamReset ==
    /\ stream_pc \in {"done", "raised"}
    /\ stream_pc' = "idle"
    /\ stream_client' = "none"
    /\ upstream' = Unset
    /\ emitted' = <<>>
    /\ stream_response' = Unset
    /\ UNCHANGED <<handler_vars, call_vars>>

InitStream == Constructed(HandlerConfigs, {<<>>}, {FALSE}, BOOLEAN, BOOLEAN)

NextStream ==
    \/ \E client \in {"gemini", "openai"}, status_code \in StreamStatuses,
          body \in StreamBodies, n \in 0..MaxLines :
              StreamOpen(client, status_code, body, n)
    \/ StreamHandleError
    \/ StreamErrorEscapes
    \/ GeminiYieldError
    \/ OpenaiRaiseError
    \/ RelayLine
    \/ StreamEnd
    \/ StreamReset

SpecStream == InitStream /\ [][NextStream]_vars

(***************************************************************************)
(* The contract of handle_api_error and extract_error_info                 *)
(***************************************************************************)
\* C1: handle_api_error never throws: for every raw body and every table of
\* custom mappings the call returns an envelope
C1_NeverThrows ==
    (caller_pc = "returned" /\ response # Unset) => IsEnvelope(response)

\* C2: the record extract_error_info returns has an error_type that is never
\* null and is always a key of the keyword table, "UNKNOWN" among them
C2_ErrorTypeRecognized ==
    (caller_pc = "returned" /\ error_info # Unset) =>
        /\ IsStr(error_info.error_type)
        /\ ItemsHas(ERROR_KEYWORD_MESSAGES, error_info.error_type.v)

\* C3: in every envelope handle_api_error returns, error.code is an integer:
\* the record's status_code when one was extracted, and 500 otherwise
C3_CodeIsInteger ==
    (caller_pc = "returned" /\ response # Unset /\ IsEnvelope(response)) =>
        /\ response.error.code.t = "int"
        /\ IF error_info.status_code.t = "None"
           THEN response.error.code.v = 500
           ELSE response.error.code = error_info.status_code

\* C4: in both clients a non-200 upstream response puts exactly one item on
\* the stream, the frame that carries the envelope, and the stream then ends;
\* no upstream line comes before or after it
C4_SingleErrorFrame ==
    (stream_pc # "idle" /\ upstream.status_code # 200) =>
        /\ Len(emitted) <= 1
        /\ \A i \in 1..Len(emitted) :
              emitted[i].kind = "frame" /\ IsEnvelope(emitted[i].json)
        /\ stream_pc \in {"done", "raised"} =>
              (stream_pc = "done" /\ Len(emitted) = 1)

(***************************************************************************)
(* The custom-mapping table: reload and lookup                             *)
(***************************************************************************)
\* the table a handler constructed now, from the current sources, would hold
LoadedNow == load_custom_mappings(<<>>, settings.CUSTOM_ERROR_MAPPINGS, environ)

\* C5: a lookup made while reload_custom_mappings runs sees the whole table
\* of before the reload or the whole table of after it, never an empty or a
\* half-built one
C5_ReloadAtomic ==
    [][(caller_pc = "idle" /\ caller_pc' = "returned" /\ load_pc # "idle")
           => observed' \in {before_reload, LoadedNow}]_vars

\* the entries whose key occurs, case-insensitively, in the text
Matching(mappings, text) ==
    {i \in 1..Len(mappings) : in(lower(mappings[i][1]), lower(text))}

\* C6: whenever a key of the table matches record.original_message, the
\* composed message is the mapped value of the lookup, verbatim
C6_MatchReturnedVerbatim ==
    (/\ caller_pc = "returned"
     /\ IsStr(error_info.original_message)
     /\ Matching(observed, error_info.original_message.v) # {})
        => user_message = custom_message

\* entry i is the longest of the matching entries, and the lexicographically
\* smallest of the longest
IsBestMatch(mappings, text, i) ==
    /\ i \in Matching(mappings, text)
    /\ \A j \in Matching(mappings, text) :
          \/ Len(mappings[j][1]) < Len(mappings[i][1])
          \/ /\ Len(mappings[j][1]) = Len(mappings[i][1])
             /\ ~StrLess(mappings[j][1], mappings[i][1])

\* the same entries in every order
Reorderings(mappings) ==
    { [i \in 1..Len(mappings) |-> mappings[p[i]]] :
          p \in Permutations(1..Len(mappings)) }

\* C7: the lookup returns the value of the longest matching key, of the
\* lexicographically smallest among the longest, and nothing when no key
\* matches; the order of the table's entries does not change the result
C7_LongestMatchWins ==
    (caller_pc = "returned" /\ IsStr(error_info.original_message)) =>
        LET text == error_info.original_message.v
        IN  /\ Matching(observed, text) = {} => custom_message = PyNone
            /\ Matching(observed, text) # {} =>
                  \E i \in Matching(observed, text) :
                      /\ IsBestMatch(observed, text, i)
                      /\ custom_message = observed[i][2]
            /\ \A t \in Reorderings(observed) :
                  find_best_custom_match(t, error_info.original_message)
                      = custom_message

\* two keys of one length match with different values, the later one in the
\* table being the smaller, and its value is the result
C7_Witness ==
    /\ caller_pc = "returned"
    /\ Len(observed) = 2
    /\ Matching(observed, error_info.original_message.v) = {1, 2}
    /\ Len(observed[1][1]) = Len(observed[2][1])
    /\ StrLess(observed[2][1], observed[1][1])
    /\ observed[1][2] # observed[2][2]
    /\ custom_message = observed[2][2]

(***************************************************************************)
(* The composed message and the envelope                                   *)
(***************************************************************************)
\* the base message by precedence: status table, keyword table, fallback
ExpectedBase(info) ==
    IF /\ info.status_code.t = "int"
       /\ \E i \in 1..Len(DEFAULT_ERROR_MESSAGES) :
             DEFAULT_ERROR_MESSAGES[i][1] = info.status_code.v
    THEN LET i == CHOOSE i \in 1..Len(DEFAULT_ERROR_MESSAGES) :
                      DEFAULT_ERROR_MESSAGES[i][1] = info.status_code.v
         IN  DEFAULT_ERROR_MESSAGES[i][2]
    ELSE IF /\ info.error_type.t = "str"
            /\ \E i \in 1..Len(ERROR_KEYWORD_MESSAGES) :
                  ERROR_KEYWORD_MESSAGES[i][1] = info.error_type.v
    THEN LET i == CHOOSE i \in 1..Len(ERROR_KEYWORD_MESSAGES) :
                      ERROR_KEYWORD_MESSAGES[i][1] = info.error_type.v
         IN  ERROR_KEYWORD_MESSAGES[i][2]
    ELSE GENERIC_MESSAGE

\* C8: when no custom mapping matches, the message is built on the status
\* table's entry if status_code is a key of it, else on the keyword table's
\* entry if error_type is a key of it, else on the generic fallback
C8_BasePrecedence ==
    (/\ caller_pc = "returned"
     /\ IsStr(user_message)
     /\ IsStr(error_info.original_message)
     /\ Matching(observed, error_info.original_message.v) = {})
        => user_message =
               compose_message(PyStr(ExpectedBase(error_info)),
                               error_info.original_message)

\* a body with the tabled code 429 and the tabled status RESOURCE_EXHAUSTED
\* got the message of 429
C8_Witness ==
    /\ caller_pc = "returned"
    /\ error_info.status_code = PyInt(429)
    /\ error_info.error_type = PyStr(KW_RESOURCE_EXHAUSTED)
    /\ IsStr(error_info.original_message)
    /\ Matching(observed, error_info.original_message.v) = {}
    /\ IsStr(user_message)
    /\ StartsWithAt(user_message.v, 1, <<"<429>">>)

\* C9: the envelope holds original_error exactly when include_original is
\* true or the debug mode is on; the block is the record's original_message,
\* error_type and details; without it the envelope is code, message and
\* status = "FAILED" alone
C9_OriginalErrorIffAsked ==
    (caller_pc = "returned" /\ response # Unset /\ IsEnvelope(response)) =>
        /\ response.error.status = "FAILED"
        /\ IF include_original \/ settings.DEBUG_MODE
           THEN /\ DOMAIN response.error =
                       {"code", "message", "status", "original_error"}
                /\ DOMAIN response.error.original_error =
                       {"message", "type", "details"}
                /\ response.error.original_error.message
                       = error_info.original_message
                /\ response.error.original_error.type = error_info.error_type
                /\ response.error.original_error.details = error_info.details
           ELSE DOMAIN response.error = {"code", "message", "status"}

\* a call with include_original = True under DEBUG_MODE = False returned the
\* block
C9_Witness ==
    /\ caller_pc = "returned"
    /\ response # Unset
    /\ IsEnvelope(response)
    /\ include_original
    /\ ~settings.DEBUG_MODE
    /\ "original_error" \in DOMAIN response.error

\* the entries the current sources name
SourceEntries ==
    LET json_text == ItemsGet(environ, ENV_JSON_NAME, <<>>)
        json_value == IF json_text = <<>> THEN PyNone ELSE json_loads(json_text)
        Entries(items) == {items[i] : i \in 1..Len(items)}
    IN  Entries(settings.CUSTOM_ERROR_MAPPINGS)
        \cup Entries(env_mappings(environ))
        \cup (IF json_value.t = "dict" THEN Entries(json_value.v) ELSE {})

\* C10: a second reload under unchanged sources leaves the table of the first,
\* and after a reload the table is the one of the current sources, with no
\* entry of an earlier load left in it
C10_ReloadIdempotent ==
    /\ (load_pc = "idle" /\ reloads_since_change >= 2) => custom_mappings = before_reload
    /\ (load_pc = "idle" /\ reloads_since_change >= 1) =>
          /\ custom_mappings = LoadedNow
          /\ \A i \in 1..Len(custom_mappings) : custom_mappings[i] \in SourceEntries

\* two reloads have run since the sources were changed, and the table holds
\* entries
C10_Witness ==
    /\ load_pc = "idle"
    /\ reloads_since_change = 2
    /\ custom_mappings # <<>>
    /\ custom_mappings = before_reload

(***************************************************************************)
(* The table after a load                                                  *)
(***************************************************************************)
\* the position of the first colon of an environment value, if it has one
FirstColon(env_value) ==
    {i \in 1..Len(env_value) :
         /\ env_value[i] = ":"
         /\ \A j \in 1..(i - 1) : env_value[j] # ":"}

\* the prefixed entries of the environment that hold a colon
WellFormedEnv ==
    {i \in 1..Len(environ) :
         /\ StartsWithAt(environ[i][1], 1, ENV_PREFIX)
         /\ FirstColon(environ[i][2]) # {}}

EnvKey(i) ==
    LET c == CHOOSE c \in FirstColon(environ[i][2]) : TRUE
    IN  strip(SubSeq(environ[i][2], 1, c - 1))

EnvValue(i) ==
    LET c == CHOOSE c \in FirstColon(environ[i][2]) : TRUE
    IN  PyStr(strip(SubSeq(environ[i][2], c + 1, Len(environ[i][2]))))

\* the items of the JSON entry when it parses to an object, none otherwise
JsonSource ==
    LET at == {i \in 1..Len(environ) : environ[i][1] = ENV_JSON_NAME}
        text == IF at = {} THEN <<>> ELSE environ[CHOOSE i \in at : TRUE][2]
        value == IF text = <<>> THEN PyNone ELSE json_loads(text)
    IN  IF value.t = "dict" THEN value.v ELSE <<>>

KeysOf(items) == {items[i][1] : i \in 1..Len(items)}
ValueOf(items, k) == items[CHOOSE i \in 1..Len(items) : items[i][1] = k][2]

MergedKeys ==
    KeysOf(settings.CUSTOM_ERROR_MAPPINGS)
    \cup {EnvKey(i) : i \in WellFormedEnv}
    \cup KeysOf(JsonSource)

\* the JSON entry's value, else the last environment entry's, else the
\* configuration's
MergedValue(k) ==
    IF k \in KeysOf(JsonSource) THEN ValueOf(JsonSource, k)
    ELSE IF \E i \in WellFormedEnv : EnvKey(i) = k
    THEN EnvValue(CHOOSE i \in WellFormedEnv :
                      /\ EnvKey(i) = k
                      /\ \A j \in WellFormedEnv : EnvKey(j) = k => j <= i)
    ELSE ValueOf(settings.CUSTOM_ERROR_MAPPINGS, k)

TableIsMerge(table) ==
    /\ KeysOf(table) = MergedKeys
    /\ \A i \in 1..Len(table) : table[i][2] = MergedValue(table[i][1])
    /\ \A i, j \in 1..Len(table) : i # j => table[i][1] # table[j][1]

\* C11: after a load the table is the merge of the configuration mapping,
\* the prefixed key:value environment entries split at their first colon,
\* and the JSON entry, a later source overwriting an earlier one; an entry
\* with no colon, and a JSON text that is no object or does not parse, add
\* nothing and the other entries are loaded all the same
C11_LoadMergesSources ==
    /\ TableIsMerge(LoadedNow)
    /\ (load_pc = "idle" /\ reloads_since_change >= 1)
           => TableIsMerge(custom_mappings)

\* a reload has run where the three sources name the key quota, the
\* environment value holds two colons, and an entry without a colon stands
\* beside them
C11_Witness ==
    /\ load_pc = "idle"
    /\ reloads_since_change >= 1
    /\ K_quota \in KeysOf(settings.CUSTOM_ERROR_MAPPINGS)
    /\ K_quota \in KeysOf(JsonSource)
    /\ \E i \in WellFormedEnv :
          EnvKey(i) = K_quota /\ EnvValue(i) = PyStr(<<"a", ":", "b">>)
    /\ \E i \in 1..Len(environ) :
          StartsWithAt(environ[i][1], 1, ENV_PREFIX) /\ i \notin WellFormedEnv
    /\ ValueOf(custom_mappings, K_quota) = PyStr(V_json)

(***************************************************************************)
(* Free-text bodies                                                        *)
(***************************************************************************)
\* C12: for a body that is not JSON-shaped, status_code is the integer that
\* follows the phrase "status code ", whatever the case of the phrase's
\* letters, and is absent only when the phrase does not occur
C12_StatusPhraseAnyCase ==
    (/\ caller_pc = "returned"
     /\ response # Unset
     /\ ~StartsWithAt(strip(error_content), 1, <<"{">>))
        => error_info.status_code =
               IF search_status_code(lower(error_content)) = <<>> THEN PyNone
               ELSE PyInt(int(search_status_code(lower(error_content))))

\* C13: when no custom mapping matches, the message is base + ": " + the
\* sanitized original_message exactly when original_message is not empty and
\* its sanitized form has at least 10 characters; a shorter sanitized form
\* counts as empty and the message is the base alone
C13_ShortFragmentSuppressed ==
    (/\ caller_pc = "returned"
     /\ IsStr(user_message)
     /\ IsStr(error_info.original_message)
     /\ Matching(observed, error_info.original_message.v) = {})
        => LET original == error_info.original_message.v
               sanitized == sanitize(original)
           IN  user_message.v =
                   IF original # <<>> /\ Len(sanitized) >= 10
                   THEN ExpectedBase(error_info) \o <<":", " ">> \o sanitized
                   ELSE ExpectedBase(error_info)

\* a body whose sanitized form is the nine characters of "nine char" got
\* the base message alone
C13_Witness ==
    /\ caller_pc = "returned"
    /\ IsStr(error_info.original_message)
    /\ Matching(observed, error_info.original_message.v) = {}
    /\ sanitize(error_info.original_message.v)
           = <<"n", "i", "n", "e", " ", "c", "h", "a", "r">>
    /\ user_message = PyStr(ExpectedBase(error_info))

====
